---- MODULE Spec2Model ----
(***************************************************************************)
(* TaskWise web front end (src/src/app.js, src/src/middleware/auth.js).    *)
(*                                                                         *)
(* One browser session talking to the Express application.  Every action   *)
(* is one HTTP request handled from the first middleware to the response:  *)
(* injectUser, the flash middleware, the timezone middleware, the route    *)
(* guards (ensureAuth, ensureAdmin) and the route handler with every call  *)
(* it makes to the upstream REST API.  The upstream API is the             *)
(* environment: each call either resolves with data drawn from a small set *)
(* or is rejected with an HTTP status (or with no status: network error).  *)
(***************************************************************************)
EXTENDS Naturals, Integers, Sequences, FiniteSets, TLC

VARIABLES
    session,  \* req.session: token, user, tz, flash queue
    req,      \* the request just handled: route, params, query, body
    locals,   \* res.locals of that request (what a rendered view reads); its flash
              \* list is kept where a view renders it or a middleware wrote to it
    resp,     \* the response sent: redirect / render / json
    view,     \* the view model handed to res.render (or the json body)
    calls,    \* upstream API calls issued while handling the request, in order,
              \* each with its outcome
    flashed,  \* the messages passed to res.flash while handling the request
    handled,  \* TRUE iff the route handler (after the guards) was invoked
    api,      \* the upstream API's data: sprints, tasks, users (read only here)
    form,     \* the task form as filled in the browser: the four PERT phases
    stale     \* history: TRUE iff a message queued before a redirect has left
              \* the session queue and no page has been rendered since

vars == <<session, req, locals, resp, view, calls, flashed, handled, api, form, stale>>

----------------------------------------------------------------------------
(* JavaScript values *)

\* undefined / null / missing property
NoVal == "undefined"

\* JS truthiness of a string-or-undefined value
Truthy(v) == v # NoVal /\ v # ""

Range(s) == {s[i] : i \in DOMAIN s}

----------------------------------------------------------------------------
(* Values exchanged with the browser and the upstream API *)

Tokens == {"tok1"}

\* a user object {id, name, email, role} is named by its id; RoleOf is its role
Users == {"uAdmin", "uMember"}

RoleOf(u) == IF u = "uAdmin" THEN "Admin" ELSE IF u = "uMember" THEN "member" ELSE NoVal

TzValues == {"America/Sao_Paulo"}

\* HTTP statuses of a rejected upstream call; NoVal: no response (network error)
ErrStatuses == {"422", NoVal}

\* ids used in route parameters (/tasks/:id, /sprints/:id)
Ids == {"id1"}

\* a redirect location or a view name; id fills the :id of the path
Loc(path, id) == [path |-> path, id |-> id]

Flash(type, text) == [type |-> type, message |-> <<text>>]

\* `${prefix} (${status || 'erro'}): ${msg}`
ErrFlash(prefix, status, msg) ==
    [type |-> "danger",
     message |-> <<prefix, IF Truthy(status) THEN status ELSE "erro", msg>>]

\* err.response?.data?.[0]?.message || err.response?.data?.message || err.message
UpstreamMsg == "upstream message"

NoBody == <<>>

\* a call that resolved, with nothing of its answer recorded
Call(method, path, id, body) ==
    [method |-> method, path |-> path, id |-> id, body |-> body,
     result |-> "ok", data |-> NoBody]

\* the call resolved with resp.data = data
Resolved(call, data) == [call EXCEPT !.data = data]

\* the call was rejected: err.response?.status is st (NoVal: no response at all)
Rejected(call, st) == [call EXCEPT !.result = IF Truthy(st) THEN st ELSE "no response"]

\* a call inside its own try/catch: resolved or rejected, the handler goes on
Outcome(call, ok) == IF ok THEN call ELSE Rejected(call, NoVal)

\* a await chain that stops at its last call: the calls before it resolved
FailLast(upstream, st) ==
    [i \in DOMAIN upstream |->
        IF i = Len(upstream) THEN Rejected(upstream[i], st) ELSE upstream[i]]
NoView == [none |-> TRUE]

Redirect(path, id) == [kind |-> "redirect", to |-> Loc(path, id), status |-> "302"]
Render(name) == [kind |-> "render", to |-> Loc(name, NoVal), status |-> "200"]
Json(status) == [kind |-> "json", to |-> Loc(NoVal, NoVal), status |-> status]

----------------------------------------------------------------------------
(* Session and the middleware every request passes through *)

\* a session that holds nothing yet (first request, or after destroy)
EmptySession == [token |-> NoVal, user |-> NoVal, tz |-> NoVal, flash |-> <<>>]

\* a flash middleware that exposes the queue without restarting it
FlashMiddlewareKeepsQueue(sess) == sess

\* app.js 38-45: the queue moves to res.locals.flash, the session's queue restarts empty
FlashMiddleware(sess) == [sess EXCEPT !.flash = <<>>]

\* app.js 48-54: ?tz=... on any request is stored in the session
TzMiddleware(sess, tzq) == IF Truthy(tzq) THEN [sess EXCEPT !.tz = tzq] ELSE sess

\* the session as the guards and the handler find it
Pre(tzq) == TzMiddleware(FlashMiddleware(session), tzq)

\* res.locals as filled by injectUser, the flash and the timezone middleware
Locals(tzq) ==
    [currentUser |-> session.user, flash |-> session.flash, tz |-> Pre(tzq).tz]

\* res.flash(type, message): append to the session queue
ResFlash(sess, msgs) == [sess EXCEPT !.flash = @ \o msgs]

\* a guard that only asks for a session, not for its token
EnsureAuthAnySession(sess) == sess.flash = <<>>

\* auth.js 3-6
EnsureAuth(sess) == Truthy(sess.token)

\* a guard that turns away members but lets a session without a user through
EnsureAdminNotMember(sess) == RoleOf(sess.user) # "member"

\* auth.js 8-16
EnsureAdmin(sess) == RoleOf(sess.user) = "Admin"

AdminWarning == Flash("warning", "Acao restrita a Admin.")

\* the history variable: the request drops from the queue a message that the
\* redirecting response resp had queued, and renders no page
Stale(response, after, msgs) ==
    /\ response.kind # "render"
    /\ \/ stale
       \/ /\ resp.kind = "redirect"
          /\ \E i \in DOMAIN session.flash :
                ~(i <= Len(after.flash) - Len(msgs) /\ after.flash[i] = session.flash[i])

\* res.locals ends with the response.  Its flash list is recorded when the
\* response renders a view (the layout prints it) and when something appended
\* to it after the flash middleware; a redirect or a JSON answer that only
\* carried the list along discards it unread.
Kept(response, lcl) ==
    IF response.kind = "render" \/ lcl.flash # session.flash THEN lcl
    ELSE [lcl EXCEPT !.flash = <<>>]

\* One request answered: sess is the session as the handler leaves it (before
\* the messages msgs it queued with res.flash), lcl is res.locals.
Answer(r, sess, lcl, response, vm, upstream, ran, msgs) ==
    /\ req' = r
    /\ session' = ResFlash(sess, msgs)
    /\ locals' = Kept(response, lcl)
    /\ resp' = response
    /\ view' = vm
    /\ calls' = upstream
    /\ handled' = ran
    /\ flashed' = msgs
    /\ stale' = Stale(response, ResFlash(sess, msgs), msgs)
    /\ UNCHANGED <<api, form>>

Req(route, id, tzq, body) == [route |-> route, id |-> id, tz |-> tzq, body |-> body]

TzQuery == {NoVal} \cup TzValues

\* requests enumerated without a tz query (the middleware treats every route alike)
NoTzQuery == {NoVal}

----------------------------------------------------------------------------
(* Public routes *)

\* app.js 56-60: POST /tz
PostTz ==
    \E tzq \in TzQuery, tz \in TzQuery :
        LET pre == Pre(tzq)
            sess == IF Truthy(tz) THEN [pre EXCEPT !.tz = tz] ELSE pre
        IN Answer(Req("POST /tz", NoVal, tzq, [tz |-> tz]), sess, Locals(tzq),
                  Json("200"), [ok |-> TRUE, tz |-> sess.tz], <<>>, TRUE, <<>>)

\* app.js 63-66: GET /login
GetLogin ==
    \E tzq \in TzQuery :
        LET pre == Pre(tzq)
            response == IF Truthy(pre.token) THEN Redirect("/dashboard", NoVal)
                        ELSE Render("login")
        IN Answer(Req("GET /login", NoVal, tzq, NoBody), pre, Locals(tzq),
                  response, NoView, <<>>, TRUE, <<>>)

\* app.js 73-76: the session after a resolved POST /auth/login
LoginSuccess(sess, token, user) == [sess EXCEPT !.token = token, !.user = user]

\* a catch block that logs the session out on a failed login
LoginFailureDropsToken(sess) == [sess EXCEPT !.token = NoVal, !.user = NoVal]

\* app.js 77-82: the session after a rejected POST /auth/login
LoginFailure(sess) == sess

\* app.js 68-83: POST /login
PostLogin ==
    \E tzq \in TzQuery :
        LET pre == Pre(tzq)
            r == Req("POST /login", NoVal, tzq, NoBody)
            login == Call("POST", "/auth/login", NoVal, NoBody)
        IN \/ \E token \in Tokens, user \in Users \cup {NoVal} :
                Answer(r, LoginSuccess(pre, token, user), Locals(tzq),
                       Redirect("/dashboard", NoVal), NoView,
                       <<Resolved(login, [token |-> token, user |-> user])>>, TRUE, <<>>)
           \/ \E st \in ErrStatuses :
                Answer(r, LoginFailure(pre), Locals(tzq), Redirect("/login", NoVal),
                       NoView, <<Rejected(login, st)>>, TRUE,
                       <<ErrFlash("Login falhou", st, UpstreamMsg)>>)

\* app.js 86-89: GET /signup
GetSignup ==
    \E tzq \in TzQuery :
        LET pre == Pre(tzq)
            response == IF Truthy(pre.token) THEN Redirect("/dashboard", NoVal)
                        ELSE Render("users/new")
        IN Answer(Req("GET /signup", NoVal, tzq, NoBody), pre, Locals(tzq),
                  response, NoView, <<>>, TRUE, <<>>)

\* a signup that logs the new account in
PostSignupLogsIn ==
    \E tzq \in TzQuery, token \in Tokens :
        Answer(Req("POST /signup", NoVal, tzq, NoBody), [Pre(tzq) EXCEPT !.token = token],
               Locals(tzq), Redirect("/dashboard", NoVal), NoView,
               <<Call("POST", "/users", NoVal, NoBody)>>, TRUE, <<>>)

\* app.js 91-104: POST /signup
PostSignup ==
    \E tzq \in TzQuery :
        LET pre == Pre(tzq)
            r == Req("POST /signup", NoVal, tzq, NoBody)
            up == <<Call("POST", "/users", NoVal, NoBody)>>
        IN \/ Answer(r, pre, Locals(tzq), Redirect("/login", NoVal), NoView, up, TRUE,
                     <<Flash("success", "Conta criada com sucesso. Faca login.")>>)
           \/ \E st \in ErrStatuses :
                Answer(r, pre, Locals(tzq), Redirect("/signup", NoVal), NoView,
                       FailLast(up, st), TRUE,
                       <<ErrFlash("Falha ao criar conta", st,
                                  IF st = "422" THEN "Validacao de usuario falhou."
                                  ELSE UpstreamMsg)>>)

\* app.js 106-110: POST /logout destroys the session
PostLogout ==
    \E tzq \in TzQuery :
        Answer(Req("POST /logout", NoVal, tzq, NoBody), EmptySession, Locals(tzq),
               Redirect("/login", NoVal), NoView, <<>>, TRUE, <<>>)

\* app.js 113: GET /
GetRoot ==
    \E tzq \in TzQuery :
        Answer(Req("GET /", NoVal, tzq, NoBody), Pre(tzq), Locals(tzq),
               Redirect("/dashboard", NoVal), NoView, <<>>, TRUE, <<>>)

----------------------------------------------------------------------------
(* Route guards *)

\* ensureAuth rejected the request: redirect to /login, handler not run
RejectAuth(r, tzq) ==
    Answer(r, Pre(tzq), Locals(tzq), Redirect("/login", NoVal), NoView, <<>>, FALSE, <<>>)

\* auth.js 10-14: ensureAdmin rejected the request; the warning is pushed onto
\* res.locals.flash (not onto the session queue) and the response is redirect('back')
RejectAdmin(r, tzq) ==
    Answer(r, Pre(tzq), [Locals(tzq) EXCEPT !.flash = @ \o <<AdminWarning>>],
           Redirect("back", NoVal), NoView, <<>>, FALSE, <<>>)

\* app.get/post(path, ensureAuth, handler)
AuthRoute(r, tzq, Handler(_, _)) ==
    IF ~EnsureAuth(Pre(tzq)) THEN RejectAuth(r, tzq)
    ELSE Handler(r, tzq)

\* app.get/post(path, ensureAuth, ensureAdmin, handler)
AdminRoute(r, tzq, Handler(_, _)) ==
    IF ~EnsureAuth(Pre(tzq)) THEN RejectAuth(r, tzq)
    ELSE IF ~EnsureAdmin(Pre(tzq)) THEN RejectAdmin(r, tzq)
    ELSE Handler(r, tzq)

\* A handler that makes one upstream call and redirects: on success it queues
\* okText and goes to okTo; on rejection it queues a danger flash built from
\* the status (Detail maps the statuses the route words itself) and goes to errTo.
Passthrough(r, tzq, call, okText, okTo, errPrefix, Detail(_), errTo) ==
    \/ Answer(r, Pre(tzq), Locals(tzq), okTo, NoView, <<call>>, TRUE,
              <<Flash("success", okText)>>)
    \/ \E st \in ErrStatuses :
         Answer(r, Pre(tzq), Locals(tzq), errTo, NoView, <<Rejected(call, st)>>, TRUE,
                <<ErrFlash(errPrefix, st, Detail(st))>>)

PlainDetail(st) == UpstreamMsg

----------------------------------------------------------------------------
(* Admin-only routes *)

\* app.js 348-360: POST /tasks/:id/delete (the detail: app.js 356)
PostTaskDelete ==
    \E tzq \in NoTzQuery, id \in Ids :
        LET Detail(st) ==
                IF st = "404" THEN "Tarefa nao encontrada."
                ELSE IF st = "403" THEN "Acao restrita a Admin." ELSE UpstreamMsg
            Handler(r, q) ==
                Passthrough(r, q, Call("DELETE", "/tasks/:id", r.id, NoBody),
                            "Tarefa excluida com sucesso", Redirect("/tasks", NoVal),
                            "Falha ao excluir tarefa", Detail, Redirect("/tasks/:id", r.id))
        IN AdminRoute(Req("POST /tasks/:id/delete", id, tzq, NoBody), tzq, Handler)

\* app.js 455-476: POST /sprints
PostSprints ==
    \E tzq \in NoTzQuery :
        LET Handler(r, q) ==
                Passthrough(r, q, Call("POST", "/sprints", NoVal, NoBody),
                            "Sprint criada", Redirect("/sprints", NoVal),
                            "Falha ao criar sprint", PlainDetail, Redirect("/sprints", NoVal))
        IN AdminRoute(Req("POST /sprints", NoVal, tzq, NoBody), tzq, Handler)

\* app.js 478-490: POST /sprints/:id/start (the detail: app.js 486)
PostSprintStart ==
    \E tzq \in NoTzQuery, id \in Ids :
        LET Detail(st) ==
                IF st = "422" THEN "Sem tarefas para iniciar." ELSE UpstreamMsg
            Handler(r, q) ==
                Passthrough(r, q, Call("PATCH", "/sprints/:id/start", r.id, NoBody),
                            "Sprint iniciada", Redirect("/sprints", NoVal),
                            "Falha ao iniciar sprint", Detail, Redirect("/sprints", NoVal))
        IN AdminRoute(Req("POST /sprints/:id/start", id, tzq, NoBody), tzq, Handler)

\* app.js 492-504: POST /sprints/:id/close (the detail: app.js 500)
PostSprintClose ==
    \E tzq \in NoTzQuery, id \in Ids :
        LET Detail(st) ==
                IF st = "409" THEN "Existem tarefas nao concluidas na sprint."
                ELSE UpstreamMsg
            Handler(r, q) ==
                Passthrough(r, q, Call("PATCH", "/sprints/:id/close", r.id, NoBody),
                            "Sprint encerrada", Redirect("/sprints", NoVal),
                            "Falha ao encerrar sprint", Detail, Redirect("/sprints", NoVal))
        IN AdminRoute(Req("POST /sprints/:id/close", id, tzq, NoBody), tzq, Handler)

\* app.js 507-522: POST /sprints/:id/tasks (the detail: app.js 516-518)
PostSprintTasks ==
    \E tzq \in NoTzQuery, id \in Ids :
        LET Detail(st) ==
                IF st = "409"
                THEN "Sprint nao editavel ou tarefa ja vinculada a outra sprint."
                ELSE IF st = "422" THEN "Selecione pelo menos 1 tarefa." ELSE UpstreamMsg
            Handler(r, q) ==
                Passthrough(r, q, Call("PATCH", "/sprints/:id/tasks", r.id, NoBody),
                            "Tarefas adicionadas a sprint", Redirect("/sprints/:id", r.id),
                            "Falha ao adicionar tarefas", Detail, Redirect("/sprints/:id", r.id))
        IN AdminRoute(Req("POST /sprints/:id/tasks", id, tzq, NoBody), tzq, Handler)

\* app.js 525-540: POST /sprints/:id/tasks/remove (the detail: app.js 534-536)
PostSprintTasksRemove ==
    \E tzq \in NoTzQuery, id \in Ids :
        LET Detail(st) ==
                IF st = "409" THEN "Sprint nao editavel (ja iniciada/encerrada)."
                ELSE IF st = "422"
                     THEN "Selecao invalida: informe taskIds pertencentes a sprint."
                     ELSE UpstreamMsg
            Handler(r, q) ==
                Passthrough(r, q, Call("PATCH", "/sprints/:id/tasks/remove", r.id, NoBody),
                            "Tarefas removidas da sprint", Redirect("/sprints/:id", r.id),
                            "Falha ao remover tarefas", Detail, Redirect("/sprints/:id", r.id))
        IN AdminRoute(Req("POST /sprints/:id/tasks/remove", id, tzq, NoBody), tzq, Handler)

\* app.js 542-559: POST /sprints/:id/capacity
PostSprintCapacity ==
    \E tzq \in NoTzQuery, id \in Ids :
        LET Handler(r, q) ==
                Passthrough(r, q, Call("PATCH", "/sprints/:id/capacity", r.id, NoBody),
                            "Capacidade atualizada", Redirect("/sprints/:id", r.id),
                            "Falha ao definir capacidade", PlainDetail, Redirect("/sprints/:id", r.id))
        IN AdminRoute(Req("POST /sprints/:id/capacity", id, tzq, NoBody), tzq, Handler)

\* app.js 602-613: GET /users; the handler renders in both outcomes
GetUsers ==
    \E tzq \in NoTzQuery :
        LET up == <<Call("GET", "/users", NoVal, NoBody)>>
            Handler(r, q) ==
                \/ \E users \in {<<>>, <<"uAdmin", "uMember">>} :
                     Answer(r, Pre(q), Locals(q), Render("users/list"), [users |-> users],
                            up, TRUE, <<>>)
                \/ \E st \in ErrStatuses :
                     Answer(r, Pre(q), Locals(q), Render("users/list"), [users |-> <<>>],
                            FailLast(up, st), TRUE,
                            <<ErrFlash("Falha ao carregar usuarios", st, UpstreamMsg)>>)
        IN AdminRoute(Req("GET /users", NoVal, tzq, NoBody), tzq, Handler)

\* app.js 616-618: GET /users/new
GetUsersNew ==
    \E tzq \in NoTzQuery :
        LET Handler(r, q) ==
                Answer(r, Pre(q), Locals(q), Render("users/new"), NoView, <<>>, TRUE, <<>>)
        IN AdminRoute(Req("GET /users/new", NoVal, tzq, NoBody), tzq, Handler)

\* app.js 620-632: POST /users (the detail: app.js 628)
PostUsers ==
    \E tzq \in NoTzQuery :
        LET Detail(st) ==
                IF st = "422" THEN "Validacao de usuario falhou." ELSE UpstreamMsg
            Handler(r, q) ==
                Passthrough(r, q, Call("POST", "/users", NoVal, NoBody),
                            "Usuario criado com sucesso", Redirect("/users", NoVal),
                            "Falha ao criar usuario", Detail, Redirect("/users/new", NoVal))
        IN AdminRoute(Req("POST /users", NoVal, tzq, NoBody), tzq, Handler)

\* the routes registered with ensureAuth, ensureAdmin
AdminRoutes ==
    {"POST /tasks/:id/delete", "POST /sprints", "POST /sprints/:id/start",
     "POST /sprints/:id/close", "POST /sprints/:id/tasks", "POST /sprints/:id/tasks/remove",
     "POST /sprints/:id/capacity", "GET /users", "GET /users/new", "POST /users"}

----------------------------------------------------------------------------
(* PERT validation of the task form (POST /tasks, POST /tasks/:id) *)

\* A form field is a string, written as the sequence of its characters; a field
\* the form did not send is undefined, which parseFloat reads as "undefined".
MaxFieldLen == 2

FieldChars == {"1", "x"}

Absent == <<NoVal>>

RECURSIVE StringsUpTo(_)
StringsUpTo(n) ==
    IF n = 0 THEN {<<>>}
    ELSE LET shorter == StringsUpTo(n - 1)
         IN shorter \cup {Append(s, c) : s \in {t \in shorter : Len(t) = n - 1}, c \in FieldChars}

FieldValues == StringsUpTo(MaxFieldLen) \cup {Absent}

Digits == {"0", "1", "2", "3", "4", "5", "6", "7", "8", "9"}

DigitVal(c) ==
    CASE c = "0" -> 0 [] c = "1" -> 1 [] c = "2" -> 2 [] c = "3" -> 3 [] c = "4" -> 4
      [] c = "5" -> 5 [] c = "6" -> 6 [] c = "7" -> 7 [] c = "8" -> 8 [] c = "9" -> 9

\* parseFloat returns NaN when no prefix of the string is a number
NaN == -1

\* length of the longest prefix of s made of decimal digits
RECURSIVE DigitPrefixLen(_)
DigitPrefixLen(s) ==
    IF s = <<>> \/ Head(s) \notin Digits THEN 0
    ELSE 1 + DigitPrefixLen(Tail(s))

RECURSIVE DecimalValue(_)
DecimalValue(s) ==
    IF s = <<>> THEN 0
    ELSE 10 * DecimalValue(SubSeq(s, 1, Len(s) - 1)) + DigitVal(s[Len(s)])

\* parseFloat on the strings of this alphabet: the number written by the longest
\* numeric prefix, whatever follows it; NaN when the string starts with no digit
ParseFloat(s) ==
    LET n == DigitPrefixLen(s)
    IN IF n = 0 THEN NaN ELSE DecimalValue(SubSeq(s, 1, n))

\* app.js 237-241 and 310-314: validPhase
ValidPhase(p) ==
    LET O == ParseFloat(p.O)
        M == ParseFloat(p.M)
        P == ParseFloat(p.P)
    IN O # NaN /\ M # NaN /\ P # NaN /\ O <= M /\ M <= P

PhaseNames == {"analiseModelagem", "execucao", "reteste", "documentacao"}

\* app.js 251 and 323: [..4 phases..].every(validPhase)
AllPhasesValid(phases) == \A n \in PhaseNames : ValidPhase(phases[n])

Phase(o, m, p) == [O |-> o, M |-> m, P |-> p]

PertWarning == Flash("warning", "Validacao PERT falhou: garanta O <= M <= P em todas as fases.")

\* app.js 243-272: the handler of POST /tasks; r.body is the phases object
CreateTaskHandler(r, tzq) ==
    IF ~AllPhasesValid(r.body)
    THEN Answer(r, Pre(tzq), Locals(tzq), Redirect("/tasks/new", NoVal), NoView, <<>>,
                TRUE, <<PertWarning>>)
    ELSE Passthrough(r, tzq, Call("POST", "/tasks", NoVal, r.body),
                     "Tarefa criada com sucesso", Redirect("/tasks", NoVal),
                     "Falha ao criar tarefa", PlainDetail, Redirect("/tasks/new", NoVal))

\* app.js 235-273: POST /tasks
PostTasks(tzs) ==
    \E tzq \in tzs :
        AuthRoute(Req("POST /tasks", NoVal, tzq, form), tzq, CreateTaskHandler)

\* app.js 341
UpdateDetail(st) ==
    IF st = "422" THEN "Validacao PERT ou dados invalidos."
    ELSE IF st = "409" THEN "Tarefa ja vinculada a outra sprint." ELSE UpstreamMsg

\* app.js 315-344: the handler of POST /tasks/:id
UpdateTaskHandler(r, tzq) ==
    IF ~AllPhasesValid(r.body)
    THEN Answer(r, Pre(tzq), Locals(tzq), Redirect("/tasks/:id", r.id), NoView, <<>>,
                TRUE, <<PertWarning>>)
    ELSE Passthrough(r, tzq, Call("PUT", "/tasks/:id", r.id, r.body),
                     "Tarefa atualizada", Redirect("/tasks/:id", r.id),
                     "Falha ao atualizar tarefa", UpdateDetail, Redirect("/tasks/:id", r.id))

\* app.js 309-345: POST /tasks/:id
PostTaskUpdate(tzs) ==
    \E tzq \in tzs, id \in Ids :
        AuthRoute(Req("POST /tasks/:id", id, tzq, form), tzq, UpdateTaskHandler)

\* a phase that passes and one that does not
GoodPhase == Phase(<<"1">>, <<"1">>, <<"1", "1">>)
BadPhase == Phase(<<"1", "1">>, <<"1">>, <<"1">>)

\* the form of the session-level specification
GoodForm == [n \in PhaseNames |-> GoodPhase]

\* the fillings of one phase
AllPhases == {Phase(o, m, p) : o \in FieldValues, m \in FieldValues, p \in FieldValues}

----------------------------------------------------------------------------
(* Task status and assignee *)

\* 'Concluida' stands for the source's 'Concluída'
TaskStatuses == {"Em andamento", "Bloqueada", "Concluida"}

\* app.js 369: desired === 'Bloqueada' && req.body.motivo && req.body.responsavelId
IsBlocking(body) ==
    body.status = "Bloqueada" /\ Truthy(body.motivo) /\ Truthy(body.responsavelId)

\* a test that takes either block field alone for a block
NoStatusChangeEitherField(body, current) ==
    /\ body.status = current
    /\ ~(body.status = "Bloqueada" /\ (Truthy(body.motivo) \/ Truthy(body.responsavelId)))

\* app.js 371: nothing to apply
NoStatusChange(body, current) == body.status = current /\ ~IsBlocking(body)

\* app.js 375-378
StatusPayload(body) ==
    [status |-> body.status,
     block |-> IF body.status = "Bloqueada"
               THEN [motivo |-> body.motivo, responsavelId |-> body.responsavelId]
               ELSE [motivo |-> NoVal, responsavelId |-> NoVal],
     hasBlock |-> body.status = "Bloqueada"]

\* app.js 384
StatusDetail(st) ==
    IF st = "422" THEN "Transicao invalida (ex.: tarefa sem sprint nao pode avancar)."
    ELSE IF st = "409" THEN "Concluir sem responsavel ou sprint nao iniciada."
    ELSE UpstreamMsg

NoChangeFlash == Flash("info", "Nenhuma alteracao de status para aplicar.")

\* app.js 364-387: the handler of POST /tasks/:id/status.  GET /tasks/{id} is
\* rejected, or resolves with the task as the upstream API holds it.
StatusHandler(r, tzq) ==
    LET read == Call("GET", "/tasks/:id", r.id, NoBody)
        patch == Call("PATCH", "/tasks/:id/status", r.id, StatusPayload(r.body))
        back == Redirect("/tasks/:id", r.id)
        Failed(st, upstream) ==
            Answer(r, Pre(tzq), Locals(tzq), back, NoView, FailLast(upstream, st), TRUE,
                   <<ErrFlash("Falha ao alterar status", st, StatusDetail(st))>>)
    IN \/ \E st \in ErrStatuses : Failed(st, <<read>>)
       \/ \E i \in DOMAIN api.tasks :
            /\ api.tasks[i].id = r.id
            /\ LET current == api.tasks[i].status
                   task == Resolved(read, [status |-> current])
               IN IF NoStatusChange(r.body, current)
                  THEN Answer(r, Pre(tzq), Locals(tzq), back, NoView, <<task>>, TRUE,
                              <<NoChangeFlash>>)
                  ELSE \/ Answer(r, Pre(tzq), Locals(tzq), back, NoView, <<task, patch>>,
                                 TRUE, <<Flash("success", "Status atualizado")>>)
                       \/ \E st \in ErrStatuses : Failed(st, <<task, patch>>)

StatusBodies ==
    [status : TaskStatuses, motivo : {NoVal, "motivo"}, responsavelId : {NoVal, "uMember"}]

\* the bodies of the session-level specification: a plain change and a block
FewStatusBodies ==
    {[status |-> "Em andamento", motivo |-> NoVal, responsavelId |-> NoVal],
     [status |-> "Bloqueada", motivo |-> "motivo", responsavelId |-> "uMember"]}

\* app.js 363-388: POST /tasks/:id/status
PostTaskStatus(tzs, bodies) ==
    \E tzq \in tzs, id \in Ids, body \in bodies :
        AuthRoute(Req("POST /tasks/:id/status", id, tzq, body), tzq, StatusHandler)

AssignHandler(r, tzq) ==
    Passthrough(r, tzq, Call("PATCH", "/tasks/:id/assign/:userId", r.id, r.body),
                "Responsavel atualizado", Redirect("/tasks/:id", r.id),
                "Falha ao definir responsavel", PlainDetail, Redirect("/tasks/:id", r.id))

\* app.js 391-404: POST /tasks/:id/assign
PostTaskAssign ==
    \E tzq \in NoTzQuery, id \in Ids :
        AuthRoute(Req("POST /tasks/:id/assign", id, tzq, [assigneeId |-> "uMember"]), tzq,
                  AssignHandler)

\* app.js 562-600: GET /users/me answers JSON, 401 without a token
GetUsersMe ==
    \E tzq \in TzQuery :
        LET r == Req("GET /users/me", NoVal, tzq, NoBody)
            up == <<Call("GET", "/users/me", NoVal, NoBody)>>
        IN IF ~Truthy(Pre(tzq).token)
           THEN Answer(r, Pre(tzq), Locals(tzq), Json("401"), NoView, <<>>, FALSE, <<>>)
           ELSE \/ Answer(r, Pre(tzq), Locals(tzq), Json("200"), NoView, up, TRUE, <<>>)
                \/ \E st \in ErrStatuses :
                     Answer(r, Pre(tzq), Locals(tzq),
                            Json(IF Truthy(st) THEN st ELSE "500"), NoView,
                            FailLast(up, st), TRUE, <<>>)

----------------------------------------------------------------------------
(* Dashboard *)

SprintStatuses == {"Created", "Started", "Closed"}

SprintIds == {"s1", "s2", "s3"}

\* a sprint as GET /sprints lists it (src "list") or as GET /sprints/{id}
\* returns it (src "detail")
Sprint(id, status, src) == [id |-> id, status |-> status, src |-> src]

\* undefined / null where a sprint is expected
NoSprint == Sprint(NoVal, NoVal, NoVal)

NoSummary == [sprintId |-> NoVal]

\* sprints.find(s => s.id === id), scanning from index i
RECURSIVE FindById(_, _, _)
FindById(sprints, id, i) ==
    IF i > Len(sprints) THEN NoSprint
    ELSE IF sprints[i].id = id THEN sprints[i]
    ELSE FindById(sprints, id, i + 1)

\* sprints.find(s => s.status === status), scanning from index i
RECURSIVE FindByStatus(_, _, _)
FindByStatus(sprints, status, i) ==
    IF i > Len(sprints) THEN NoSprint
    ELSE IF sprints[i].status = status THEN sprints[i]
    ELSE FindByStatus(sprints, status, i + 1)

\* a || b on sprint objects
OrElse(a, b) == IF a # NoSprint THEN a ELSE b

\* a selection that falls back to the first sprint, started or not
SelectSprintFirst(sprints, sprintId) ==
    LET fromQuery == IF Truthy(sprintId) THEN FindById(sprints, sprintId, 1) ELSE NoSprint
        first == IF sprints = <<>> THEN NoSprint ELSE sprints[1]
    IN OrElse(fromQuery, first)

\* app.js 120-121
SelectSprint(sprints, sprintId) ==
    LET fromQuery == IF Truthy(sprintId) THEN FindById(sprints, sprintId, 1) ELSE NoSprint
        first == IF sprints = <<>> THEN NoSprint ELSE sprints[1]
    IN OrElse(fromQuery, OrElse(FindByStatus(sprints, "Started", 1), first))

\* a re-fetch whose failure leaves the dashboard without a sprint
SelectedSprintOrNone(selected, detailOk) ==
    IF detailOk THEN Sprint(selected.id, selected.status, "detail") ELSE NoSprint

\* app.js 125-142: the two sub-fetches, each with its own try/catch
SelectedSprint(selected, detailOk) ==
    IF detailOk THEN Sprint(selected.id, selected.status, "detail") ELSE selected

Summary(selected, summaryOk) ==
    IF summaryOk THEN [sprintId |-> selected.id] ELSE NoSummary

DashboardView(sprints, selectedSprint, summary) ==
    [sprints |-> sprints, selectedSprint |-> selectedSprint, summary |-> summary]

\* app.js 116-154: the handler of GET /dashboard; r.body.sprintId is req.query.sprintId
DashboardHandler(r, tzq) ==
    LET list == Call("GET", "/sprints", NoVal, NoBody)
        sprints == api.sprints
        selected == SelectSprint(sprints, r.body.sprintId)
    IN \/ \E st \in ErrStatuses :
            Answer(r, Pre(tzq), Locals(tzq), Render("dashboard"),
                   DashboardView(<<>>, NoSprint, NoSummary), <<Rejected(list, st)>>, TRUE,
                   <<ErrFlash("Falha ao carregar dashboard", st, UpstreamMsg)>>)
       \/ IF selected = NoSprint
          THEN Answer(r, Pre(tzq), Locals(tzq), Render("dashboard"),
                      DashboardView(sprints, NoSprint, NoSummary), <<list>>, TRUE, <<>>)
          ELSE \E detailOk \in BOOLEAN, summaryOk \in BOOLEAN :
                 Answer(r, Pre(tzq), Locals(tzq), Render("dashboard"),
                        DashboardView(sprints, SelectedSprint(selected, detailOk),
                                      Summary(selected, summaryOk)),
                        <<list,
                          Outcome(Call("GET", "/sprints/:id", selected.id, NoBody), detailOk),
                          Outcome(Call("GET", "/dashboard/summary", selected.id, NoBody),
                                  summaryOk)>>,
                        TRUE, <<>>)

\* app.js 115-155: GET /dashboard
GetDashboard(tzs, sprintQueries) ==
    \E tzq \in tzs, q \in sprintQueries :
        AuthRoute(Req("GET /dashboard", NoVal, tzq, [sprintId |-> q]), tzq, DashboardHandler)

----------------------------------------------------------------------------
(* Tasks as the upstream API serves them *)

TaskIds == {"t1", "t2"}

\* the computed fields a list entry may come without
Omissions == {"none", "totalHours", "totalDays", "dueDate"}

\* One task of the upstream API: its data, the field its list entry lacks, and
\* whether GET /tasks/{id} resolves for it while this request is handled.
UpTask(id, sprintId, status, dueDate, omit, fetchOk) ==
    [id |-> id, sprintId |-> sprintId, status |-> status, dueDate |-> dueDate,
     omit |-> omit, fetchOk |-> fetchOk]

\* the entry of the task in data.items of GET /tasks
ListItem(u) ==
    [id |-> u.id, sprintId |-> u.sprintId, status |-> u.status,
     totalHours |-> IF u.omit = "totalHours" THEN NoVal ELSE "8",
     totalDays |-> IF u.omit = "totalDays" THEN NoVal ELSE "1",
     dueDate |-> IF u.omit = "dueDate" THEN NoVal ELSE u.dueDate,
     src |-> "list"]

\* the record GET /tasks/{id} returns for the task
DetailItem(u) ==
    [id |-> u.id, sprintId |-> u.sprintId, status |-> u.status,
     totalHours |-> "8", totalDays |-> "1", dueDate |-> u.dueDate, src |-> "detail"]

\* null where a task record is expected (a rejected fetch: .catch(() => null))
NoTask ==
    [id |-> NoVal, sprintId |-> NoVal, status |-> NoVal, totalHours |-> NoVal,
     totalDays |-> NoVal, dueDate |-> NoVal, src |-> NoVal]

Map(f(_), s) == [i \in DOMAIN s |-> f(s[i])]

\* GET /tasks with params {sprintId}: the upstream filter
InSprint(sprintId, u) == u.sprintId = sprintId

TasksOfSprint(tasks, sprintId) ==
    LET Test(u) == InSprint(sprintId, u) IN SelectSeq(tasks, Test)

\* api.get(`/tasks/${id}`).then(r => r.data).catch(() => null)
FetchTask(tasks, id) ==
    IF \E i \in DOMAIN tasks : tasks[i].id = id /\ tasks[i].fetchOk
    THEN DetailItem(tasks[CHOOSE i \in DOMAIN tasks : tasks[i].id = id /\ tasks[i].fetchOk])
    ELSE NoTask

----------------------------------------------------------------------------
(* Enrichment of a task list (GET /tasks, GET /sprints/:id) *)

\* app.js 173 and 436
NeedsDetails(t) == t.totalHours = NoVal \/ t.totalDays = NoVal \/ ~Truthy(t.dueDate)

IsRecord(d) == d # NoTask

\* new Map(pairs).has(id)
MapHas(found, id) == \E i \in DOMAIN found : found[i].id = id

\* new Map(pairs).get(id): a later pair with the same key replaces an earlier one
MapGet(found, id) ==
    found[CHOOSE i \in DOMAIN found :
            /\ found[i].id = id
            /\ \A j \in DOMAIN found : found[j].id = id => j <= i]

\* app.js 175: one fetch per item that needs details
EnrichCalls(items, tasks) ==
    LET Fetch(t) == Outcome(Call("GET", "/tasks/:id", t.id, NoBody),
                            FetchTask(tasks, t.id) # NoTask)
    IN Map(Fetch, SelectSeq(items, NeedsDetails))

\* an enrichment that keeps only the items it has complete data for
EnrichDropsFailed(items, tasks) ==
    LET Fetch(t) == FetchTask(tasks, t.id)
        Complete(t) == ~NeedsDetails(t) \/ Fetch(t) # NoTask
        Merge(t) == IF NeedsDetails(t) THEN Fetch(t) ELSE t
    IN Map(Merge, SelectSeq(items, Complete))

\* app.js 173-177 and 436-440
Enrich(items, tasks) ==
    LET needDetails == SelectSeq(items, NeedsDetails)
        Fetch(t) == FetchTask(tasks, t.id)
        details == Map(Fetch, needDetails)
        mapById == SelectSeq(details, IsRecord)
        Merge(t) == IF MapHas(mapById, t.id) THEN MapGet(mapById, t.id) ELSE t
    IN IF needDetails = <<>> THEN items ELSE Map(Merge, items)

----------------------------------------------------------------------------
(* Assignee list (GET /tasks, GET /tasks/new, GET /tasks/:id) *)

\* u => ({ id: u.id, name: u.name, email: u.email, role: u.role })
Reduced(u) == [id |-> u.id, role |-> u.role]

\* what GET /users/available does during this request: resolves, or is rejected
AvailableOutcomes == {"ok", "404", "422"}

\* the call GET /users/available with its outcome
Available(avail) ==
    LET call == Call("GET", "/users/available", NoVal, NoBody)
    IN IF avail = "ok" THEN call ELSE Rejected(call, avail)

\* app.js 210-225 and 284-299: the users of the form views.  avail is the outcome
\* of GET /users/available, usersOk whether the fallback GET /users resolves.
FormUsers(sess, avail, usersOk) ==
    IF avail = "ok" THEN Map(Reduced, api.users)
    ELSE IF avail = "404" /\ RoleOf(sess.user) = "Admin"
         THEN IF usersOk THEN Map(Reduced, api.users) ELSE <<>>
         ELSE <<>>

FormUsersCalls(sess, avail, usersOk) ==
    <<Available(avail)>>
    \o (IF avail = "404" /\ RoleOf(sess.user) = "Admin"
        THEN <<Outcome(Call("GET", "/users", NoVal, NoBody), usersOk)>> ELSE <<>>)

\* app.js 182-187: the users of the task listing
ListUsers(avail) == IF avail = "ok" THEN Map(Reduced, api.users) ELSE <<>>

----------------------------------------------------------------------------
(* Task views *)

EmptyTaskList == [items |-> <<>>, sprints |-> <<>>, users |-> <<>>]

\* app.js 159-198: the handler of GET /tasks
TaskListHandler(r, tzq) ==
    LET first == Call("GET", "/tasks", NoVal, NoBody)
        items == Map(ListItem, api.tasks)
        upTo == <<first>> \o EnrichCalls(items, api.tasks)
        sprintsCall == Call("GET", "/sprints", NoVal, NoBody)
        Failed(st, upstream) ==
            Answer(r, Pre(tzq), Locals(tzq), Render("tasks/list"), EmptyTaskList,
                   FailLast(upstream, st), TRUE,
                   <<ErrFlash("Falha ao carregar tarefas", st, UpstreamMsg)>>)
    IN \/ \E st \in ErrStatuses : Failed(st, <<first>>)
       \/ \E st \in ErrStatuses : Failed(st, upTo \o <<sprintsCall>>)
       \/ \E avail \in AvailableOutcomes :
            Answer(r, Pre(tzq), Locals(tzq), Render("tasks/list"),
                   [items |-> Enrich(items, api.tasks), sprints |-> api.sprints,
                    users |-> ListUsers(avail)],
                   upTo \o <<sprintsCall, Available(avail)>>, TRUE, <<>>)

\* app.js 158-199: GET /tasks
GetTasks(tzs) ==
    \E tzq \in tzs :
        AuthRoute(Req("GET /tasks", NoVal, tzq, NoBody), tzq, TaskListHandler)

\* app.js 203-232: the handler of GET /tasks/new
TaskNewHandler(r, tzq) ==
    LET sprintsCall == Call("GET", "/sprints", NoVal, NoBody) IN
    \/ \E st \in ErrStatuses :
         Answer(r, Pre(tzq), Locals(tzq), Redirect("/tasks", NoVal), NoView,
                <<Rejected(sprintsCall, st)>>, TRUE,
                <<ErrFlash("Falha ao carregar formulario", st, UpstreamMsg)>>)
    \/ \E avail \in AvailableOutcomes, usersOk \in BOOLEAN :
         Answer(r, Pre(tzq), Locals(tzq), Render("tasks/form"),
                [task |-> NoTask, sprints |-> api.sprints,
                 users |-> FormUsers(Pre(tzq), avail, usersOk)],
                <<sprintsCall>> \o FormUsersCalls(Pre(tzq), avail, usersOk), TRUE, <<>>)

\* app.js 202-233: GET /tasks/new
GetTasksNew ==
    \E tzq \in NoTzQuery :
        AuthRoute(Req("GET /tasks/new", NoVal, tzq, NoBody), tzq, TaskNewHandler)

\* app.js 277-306: the handler of GET /tasks/:id
TaskFormHandler(r, tzq) ==
    LET taskCall == Call("GET", "/tasks/:id", r.id, NoBody)
        sprintsCall == Call("GET", "/sprints", NoVal, NoBody)
        task == [NoTask EXCEPT !.id = r.id, !.src = "detail"]
        Failed(st, upstream) ==
            Answer(r, Pre(tzq), Locals(tzq), Redirect("/tasks", NoVal), NoView,
                   FailLast(upstream, st), TRUE,
                   <<ErrFlash("Falha ao carregar a tarefa", st, UpstreamMsg)>>)
    IN \/ \E st \in ErrStatuses : Failed(st, <<taskCall>>)
       \/ \E st \in ErrStatuses : Failed(st, <<taskCall, sprintsCall>>)
       \/ \E avail \in AvailableOutcomes, usersOk \in BOOLEAN :
            Answer(r, Pre(tzq), Locals(tzq), Render("tasks/form"),
                   [task |-> task, sprints |-> api.sprints,
                    users |-> FormUsers(Pre(tzq), avail, usersOk)],
                   <<taskCall, sprintsCall>> \o FormUsersCalls(Pre(tzq), avail, usersOk), TRUE, <<>>)

\* app.js 276-307: GET /tasks/:id
GetTaskForm ==
    \E tzq \in NoTzQuery, id \in Ids :
        AuthRoute(Req("GET /tasks/:id", id, tzq, NoBody), tzq, TaskFormHandler)

----------------------------------------------------------------------------
(* Sprint views *)

\* app.js 412 and 444: tasksAll.filter(t => !t.sprintId)
HasNoSprint(t) == ~Truthy(t.sprintId)

\* a map that marks every sprint that has a task, finished or not
PendingAnyStatus(tasksAll, i, acc) ==
    acc \cup {tasksAll[j].sprintId :
                j \in {k \in DOMAIN tasksAll : k >= i /\ Truthy(tasksAll[k].sprintId)}}

\* app.js 414-417: the keys of pendingBySprint after the loop over tasksAll[i..]
RECURSIVE PendingBySprint(_, _, _)
PendingBySprint(tasksAll, i, acc) ==
    IF i > Len(tasksAll) THEN acc
    ELSE LET t == tasksAll[i]
         IN PendingBySprint(tasksAll, i + 1,
                IF Truthy(t.sprintId) /\ t.status # "Concluida"
                THEN acc \cup {t.sprintId} ELSE acc)

\* app.js 445: tasksInSprint.some(t => t.status !== 'Concluída')
HasPending(tasksInSprint) ==
    \E i \in DOMAIN tasksInSprint : tasksInSprint[i].status # "Concluida"

EmptySprintList == [sprints |-> <<>>, tasks |-> <<>>, pendingBySprint |-> {}]

\* app.js 408-424: the handler of GET /sprints
SprintListHandler(r, tzq) ==
    LET sprintsCall == Call("GET", "/sprints", NoVal, NoBody)
        tasksCall == Call("GET", "/tasks", NoVal, NoBody)
        tasksAll == Map(ListItem, api.tasks)
        Failed(st, upstream) ==
            Answer(r, Pre(tzq), Locals(tzq), Render("sprints/list"), EmptySprintList,
                   FailLast(upstream, st), TRUE,
                   <<ErrFlash("Falha ao carregar sprints", st, UpstreamMsg)>>)
    IN \/ \E st \in ErrStatuses : Failed(st, <<sprintsCall>>)
       \/ \E st \in ErrStatuses : Failed(st, <<sprintsCall, tasksCall>>)
       \/ Answer(r, Pre(tzq), Locals(tzq), Render("sprints/list"),
                 [sprints |-> api.sprints, tasks |-> SelectSeq(tasksAll, HasNoSprint),
                  pendingBySprint |-> PendingBySprint(tasksAll, 1, {})],
                 <<sprintsCall, tasksCall>>, TRUE, <<>>)

\* app.js 407-425: GET /sprints
GetSprints(tzs) ==
    \E tzq \in tzs :
        AuthRoute(Req("GET /sprints", NoVal, tzq, NoBody), tzq, SprintListHandler)

\* app.js 429-452: the handler of GET /sprints/:id
SprintDetailHandler(r, tzq) ==
    LET sprintCall == Call("GET", "/sprints/:id", r.id, NoBody)
        ofSprint == Call("GET", "/tasks", r.id, NoBody)
        allTasks == Call("GET", "/tasks", NoVal, NoBody)
        sprint == FindById(api.sprints, r.id, 1)
        listed == Map(ListItem, TasksOfSprint(api.tasks, r.id))
        tasksInSprint == Enrich(listed, api.tasks)
        upTo == <<sprintCall, ofSprint>> \o EnrichCalls(listed, api.tasks)
        Failed(st, upstream) ==
            Answer(r, Pre(tzq), Locals(tzq), Redirect("/sprints", NoVal), NoView,
                   FailLast(upstream, st), TRUE,
                   <<ErrFlash("Falha ao carregar sprint", st, UpstreamMsg)>>)
    IN \/ \E st \in ErrStatuses : Failed(st, <<sprintCall>>)
       \/ /\ sprint # NoSprint
          /\ \/ \E st \in ErrStatuses : Failed(st, <<sprintCall, ofSprint>>)
             \/ \E st \in ErrStatuses : Failed(st, upTo \o <<allTasks>>)
             \/ Answer(r, Pre(tzq), Locals(tzq), Render("sprints/detail"),
                       [sprint |-> Sprint(sprint.id, sprint.status, "detail"),
                        tasksInSprint |-> tasksInSprint,
                        tasksWithoutSprint |->
                            SelectSeq(Map(ListItem, api.tasks), HasNoSprint),
                        hasPending |-> HasPending(tasksInSprint)],
                       upTo \o <<allTasks>>, TRUE, <<>>)

\* app.js 428-453: GET /sprints/:id
GetSprintDetail(tzs, ids) ==
    \E tzq \in tzs, id \in ids :
        AuthRoute(Req("GET /sprints/:id", id, tzq, NoBody), tzq, SprintDetailHandler)

----------------------------------------------------------------------------
(* The specifications *)

\* the upstream data of the session-level specification
FewApi ==
    [sprints |-> <<Sprint("id1", "Started", "list")>>,
     tasks |-> <<UpTask("id1", "id1", "Em andamento", "2025-03-01", "dueDate", TRUE)>>,
     users |-> <<[id |-> "uMember", role |-> "member", createdAt |-> "2025-01-01"]>>]

Init ==
    /\ session = EmptySession
    /\ req = Req("none", NoVal, NoVal, NoBody)
    /\ locals = [currentUser |-> NoVal, flash |-> <<>>, tz |-> NoVal]
    /\ resp = Json("none")
    /\ view = NoView
    /\ calls = <<>>
    /\ flashed = <<>>
    /\ handled = FALSE
    /\ api = FewApi
    /\ form = GoodForm
    /\ stale = FALSE

Next ==
    \/ PostTz
    \/ GetLogin
    \/ PostLogin
    \/ GetSignup
    \/ PostSignup
    \/ PostLogout
    \/ GetRoot
    \/ PostTaskDelete
    \/ PostSprints
    \/ PostSprintStart
    \/ PostSprintClose
    \/ PostSprintTasks
    \/ PostSprintTasksRemove
    \/ PostSprintCapacity
    \/ GetUsers
    \/ GetUsersNew
    \/ PostUsers
    \/ PostTasks(NoTzQuery)
    \/ PostTaskUpdate(NoTzQuery)
    \/ PostTaskStatus(NoTzQuery, FewStatusBodies)
    \/ PostTaskAssign
    \/ GetUsersMe
    \/ GetDashboard(TzQuery, {NoVal})
    \/ GetTasks(NoTzQuery)
    \/ GetTasksNew
    \/ GetTaskForm
    \/ GetSprints(NoTzQuery)
    \/ GetSprintDetail(NoTzQuery, Ids)

Spec == Init /\ [][Next]_vars

\* a session after POST /login resolved (reachable under Spec), or a new one
LoggedIn(user) == [EmptySession EXCEPT !.token = "tok1", !.user = user]

Idle ==
    /\ req = Req("none", NoVal, NoVal, NoBody)
    /\ locals = [currentUser |-> NoVal, flash |-> <<>>, tz |-> NoVal]
    /\ resp = Json("none")
    /\ view = NoView
    /\ calls = <<>>
    /\ flashed = <<>>
    /\ handled = FALSE
    /\ stale = FALSE

\* The task form, submitted to create or to update: one phase is filled in
\* freely, each of the others either passes or fails
InitForm ==
    /\ session \in {EmptySession, LoggedIn("uMember")}
    /\ api = FewApi
    /\ \E n \in PhaseNames, others \in [PhaseNames -> {GoodPhase, BadPhase}],
          free \in AllPhases :
            form = [others EXCEPT ![n] = free]
    /\ Idle

NextForm ==
    \/ PostTasks(NoTzQuery)
    \/ PostTaskUpdate(NoTzQuery)

SpecForm == InitForm /\ [][NextForm]_vars

\* One task whose status is changed: every current status against every
\* requested status, with and without each block field
InitStatus ==
    /\ session \in {EmptySession, LoggedIn("uMember")}
    /\ \E current \in TaskStatuses :
         api = [FewApi EXCEPT !.tasks = <<UpTask("id1", "id1", current, "2025-03-01",
                                                  "none", TRUE)>>]
    /\ form = GoodForm
    /\ Idle

NextStatus ==
    \/ PostTaskStatus(TzQuery, StatusBodies)
    \/ PostTaskAssign

SpecStatus == InitStatus /\ [][NextStatus]_vars

MaxSprints == 3

\* the sprint lists GET /sprints may return: up to n sprints with distinct ids
SprintLists(n) ==
    LET listed == {Sprint(id, st, "list") : id \in SprintIds, st \in SprintStatuses}
    IN UNION {{l \in [1..k -> listed] :
                 \A a \in 1..k, b \in 1..k : a # b => l[a].id # l[b].id} : k \in 0..n}

\* the sprintId query parameter: absent, a sprint id, or an id no sprint has
SprintQueries == {NoVal, "zz"} \cup SprintIds

InitDashboard ==
    /\ session \in {EmptySession, LoggedIn("uMember")}
    /\ \E sprints \in SprintLists(MaxSprints) : api = [FewApi EXCEPT !.sprints = sprints]
    /\ form = GoodForm
    /\ Idle

NextDashboard == GetDashboard(NoTzQuery, SprintQueries)

SpecDashboard == InitDashboard /\ [][NextDashboard]_vars

MaxTasks == 2

\* the due date the upstream API holds for a task
DueDateOf(id) == IF id = "t1" THEN "2025-03-01" ELSE "2025-03-02"

\* the task lists GET /tasks may return: up to n tasks with distinct ids, in
\* the given sprints (or none), with the given statuses and omitted fields
TaskLists(n, sprintIds, statuses, omissions) ==
    LET stored == {UpTask(id, sp, st, DueDateOf(id), omit, ok) :
                     id \in TaskIds, sp \in sprintIds, st \in statuses,
                     omit \in omissions, ok \in BOOLEAN}
    IN UNION {{l \in [1..k -> stored] :
                 \A a \in 1..k, b \in 1..k : a # b => l[a].id # l[b].id} : k \in 0..n}

TwoSprints == <<Sprint("s1", "Started", "list"), Sprint("s2", "Created", "list")>>

\* Task lists to enrich: every omission, with the detail fetch resolving or not
InitTaskViews ==
    /\ session \in {EmptySession, LoggedIn("uMember")}
    /\ \E tasks \in TaskLists(MaxTasks, {NoVal, "s1"}, {"Em andamento"}, Omissions) :
         api = [FewApi EXCEPT !.sprints = TwoSprints, !.tasks = tasks]
    /\ form = GoodForm
    /\ Idle

NextTaskViews ==
    \/ GetTasks(NoTzQuery)
    \/ GetSprintDetail(NoTzQuery, {"s1"})

SpecTaskViews == InitTaskViews /\ [][NextTaskViews]_vars

\* Tasks spread over two sprints, finished or not
InitSprintViews ==
    /\ session \in {EmptySession, LoggedIn("uMember")}
    /\ \E tasks \in TaskLists(MaxTasks, {NoVal, "s1", "s2"}, {"Concluida", "Em andamento"},
                              {"none", "dueDate"}) :
         api = [FewApi EXCEPT !.sprints = TwoSprints, !.tasks = tasks]
    /\ form = GoodForm
    /\ Idle

NextSprintViews ==
    \/ GetSprints(NoTzQuery)
    \/ GetSprintDetail(NoTzQuery, {"s1", "s2"})

SpecSprintViews == InitSprintViews /\ [][NextSprintViews]_vars

----------------------------------------------------------------------------
(* Claims *)

\* a field is numeric when the whole of it is a decimal number
IsNumeric(s) == s # <<>> /\ \A i \in DOMAIN s : s[i] \in Digits

\* O, M and P all numeric, with O <= M <= P
PertOrdered(p) ==
    /\ IsNumeric(p.O) /\ IsNumeric(p.M) /\ IsNumeric(p.P)
    /\ DecimalValue(p.O) <= DecimalValue(p.M)
    /\ DecimalValue(p.M) <= DecimalValue(p.P)

TaskFormRoutes == {"POST /tasks", "POST /tasks/:id"}

IsUpstreamWrite(c) ==
    \/ c.method = "POST" /\ c.path = "/tasks"
    \/ c.method = "PUT" /\ c.path = "/tasks/:id"

FormOf(route) == IF route = "POST /tasks" THEN Loc("/tasks/new", NoVal)
                 ELSE Loc("/tasks/:id", req.id)

\* C1: a create/update submitted by an authenticated session reaches the
\* upstream API if and only if all four phases have O, M and P numeric with
\* O <= M <= P; otherwise no upstream call is made, a warning flash is queued
\* and the response redirects back to the form.
C1_LocalValidation ==
    (req.route \in TaskFormRoutes /\ handled) =>
        LET ok == \A n \in PhaseNames : PertOrdered(req.body[n])
        IN /\ (\E i \in DOMAIN calls : IsUpstreamWrite(calls[i])) <=> ok
           /\ ~ok => /\ calls = <<>>
                     /\ session.flash = <<PertWarning>>
                     /\ resp.kind = "redirect"
                     /\ resp.to = FormOf(req.route)

LoginFailedFlashes == {ErrFlash("Login falhou", st, UpstreamMsg) : st \in ErrStatuses}

\* C2 as stated: a message queued before a redirect is on the next page that
\* is rendered, whatever requests come between the redirect and that page.
C2_FlashOnNextRenderedPage ==
    [][resp'.kind = "render" =>
         /\ ~stale
         /\ resp.kind = "redirect" =>
                \A i \in DOMAIN session.flash : session.flash[i] \in Range(locals'.flash)]_vars

\* C2 amended: the queued messages are shown by the very next request of the
\* session if it renders a page (exactly the queue, each message once), and
\* whatever that request is, the queue afterwards holds only what it queued
\* itself: nothing older is left for a later page.
C2_FlashOnNextRequestOnly ==
    [][/\ resp'.kind = "render" => locals'.flash = session.flash
       /\ session'.flash = flashed']_vars

\* a failed login's message shown by the login page, the queue empty again
C2_Witness ==
    /\ resp = Render("login")
    /\ locals.flash # <<>>
    /\ locals.flash[1] \in LoginFailedFlashes
    /\ session.flash = <<>>

IsLoginCall(c) == c.method = "POST" /\ c.path = "/auth/login"

\* C3 as stated: a resolved login stores the returned token and user and
\* redirects to /dashboard; a rejected one leaves token, user and tz as they
\* were, queues one danger flash and redirects to /login.
C3_LoginLeavesTz ==
    [][req'.route = "POST /login" =>
         IF calls'[1].result = "ok"
         THEN /\ session'.token = calls'[1].data.token
              /\ session'.user = calls'[1].data.user
              /\ resp' = Redirect("/dashboard", NoVal)
         ELSE /\ session'.token = session.token
              /\ session'.user = session.user
              /\ session'.tz = session.tz
              /\ session'.flash \in {<<m>> : m \in LoginFailedFlashes}
              /\ resp' = Redirect("/login", NoVal)]_vars

\* C3 amended: as stated, except that tz is what it was before the request
\* only when the request carried no tz query parameter; with ?tz=... the
\* timezone middleware has stored that value before the handler ran.
C3_Login ==
    [][req'.route = "POST /login" =>
         /\ Len(calls') = 1 /\ IsLoginCall(calls'[1])
         /\ IF calls'[1].result = "ok"
            THEN /\ session'.token = calls'[1].data.token
                 /\ session'.user = calls'[1].data.user
                 /\ resp' = Redirect("/dashboard", NoVal)
            ELSE /\ session'.token = session.token
                 /\ session'.user = session.user
                 /\ session'.tz = IF Truthy(req'.tz) THEN req'.tz ELSE session.tz
                 /\ session'.flash \in {<<m>> : m \in LoginFailedFlashes}
                 /\ resp' = Redirect("/login", NoVal)]_vars

\* a rejected login of a session that was logged in: it still is
C3_Witness ==
    /\ req.route = "POST /login"
    /\ calls[1].result # "ok"
    /\ Truthy(session.token)
    /\ session.flash # <<>>

\* the routes registered with ensureAuth (with or without ensureAdmin)
AuthRoutes ==
    {"GET /dashboard", "GET /tasks", "GET /tasks/new", "POST /tasks", "GET /tasks/:id",
     "POST /tasks/:id", "POST /tasks/:id/status", "POST /tasks/:id/assign", "GET /sprints",
     "GET /sprints/:id"} \cup AdminRoutes

\* C4: on a route guarded by ensureAuth, a session without a token is
\* redirected to /login with the handler not invoked and no upstream call;
\* a session with a token passes the guard (an Admin-only route then asks
\* ensureAdmin, every other route runs its handler).
C4_EnsureAuth ==
    [][req'.route \in AuthRoutes =>
         IF ~Truthy(session.token)
         THEN resp' = Redirect("/login", NoVal) /\ ~handled' /\ calls' = <<>>
         ELSE /\ resp' # Redirect("/login", NoVal)
              /\ handled' \/ (req'.route \in AdminRoutes /\ RoleOf(session.user) # "Admin")]_vars

\* an anonymous GET /dashboard turned away
C4_Witness ==
    /\ req.route = "GET /dashboard"
    /\ ~Truthy(session.token)
    /\ resp = Redirect("/login", NoVal)
    /\ ~handled

\* C5: on an Admin-only route, an authenticated session whose user is not an
\* Admin (or that has no user) never reaches the handler, causes no upstream
\* call and is redirected back.
C5_EnsureAdmin ==
    [][(req'.route \in AdminRoutes /\ Truthy(session.token) /\ RoleOf(session.user) # "Admin")
         => ~handled' /\ calls' = <<>> /\ resp' = Redirect("back", NoVal)]_vars

\* a logged-in session without a user turned away from an Admin-only route
C5_Witness ==
    /\ req.route = "POST /users"
    /\ Truthy(session.token)
    /\ session.user = NoVal
    /\ resp = Redirect("back", NoVal)
    /\ ~handled

\* C6: after ensureAdmin turned a request away, the warning is in the
\* session's queue and the next page rendered for the session shows it.
C6_AdminWarningShown ==
    [][(resp = Redirect("back", NoVal) /\ ~handled) =>
         /\ AdminWarning \in Range(session.flash)
         /\ resp'.kind = "render" => AdminWarning \in Range(locals'.flash)]_vars

\* the status the upstream API holds for a task
CurrentStatus(id) == api.tasks[CHOOSE i \in DOMAIN api.tasks : api.tasks[i].id = id].status

\* the requested status is the current one and the block fields are not both there
NothingToChange ==
    /\ req.route = "POST /tasks/:id/status"
    /\ handled
    /\ req.body.status = CurrentStatus(req.id)
    /\ ~(Truthy(req.body.motivo) /\ Truthy(req.body.responsavelId))

\* C7 as stated: a request for the status the task already has, without both
\* block fields, makes no upstream call, queues the info flash and redirects
\* to the task's page.
C7_NoChangeNoCall ==
    NothingToChange =>
        /\ calls = <<>>
        /\ session.flash = <<NoChangeFlash>>
        /\ resp = Redirect("/tasks/:id", req.id)

\* C7 amended: such a request makes exactly one upstream call, the
\* GET /tasks/{id} that reads the current status, and no PATCH; when that read
\* resolves, the info flash is queued and the answer is the redirect to the
\* task's page.
C7_NoChangeReadOnly ==
    NothingToChange =>
        /\ Len(calls) = 1
        /\ calls[1].method = "GET" /\ calls[1].path = "/tasks/:id" /\ calls[1].id = req.id
        /\ resp = Redirect("/tasks/:id", req.id)
        /\ calls[1].result = "ok" => session.flash = <<NoChangeFlash>>

\* a blocked task asked to be blocked again with a reason but nobody responsible
C7_Witness ==
    /\ NothingToChange
    /\ req.body.status = "Bloqueada"
    /\ Truthy(req.body.motivo)
    /\ calls[1].result = "ok"
    /\ session.flash = <<NoChangeFlash>>

\* the least index of a sprint that satisfies the test, 0 if there is none
FirstIndex(sprints, Test(_)) ==
    IF \E i \in DOMAIN sprints : Test(sprints[i])
    THEN CHOOSE i \in DOMAIN sprints :
            Test(sprints[i]) /\ \A j \in DOMAIN sprints : Test(sprints[j]) => i <= j
    ELSE 0

\* the index in the list of the sprint the dashboard is to show, 0 for none
ExpectedSprint(sprints, sprintId) ==
    LET IsAsked(sp) == sprintId # NoVal /\ sp.id = sprintId
        IsStarted(sp) == sp.status = "Started"
    IN IF FirstIndex(sprints, IsAsked) # 0 THEN FirstIndex(sprints, IsAsked)
       ELSE IF FirstIndex(sprints, IsStarted) # 0 THEN FirstIndex(sprints, IsStarted)
       ELSE IF sprints # <<>> THEN 1
       ELSE 0

DashboardListed ==
    /\ req.route = "GET /dashboard"
    /\ handled
    /\ calls[1].result = "ok"

\* C8: with the sprint list resolved, the dashboard shows the sprint asked
\* for by sprintId if the list has it, else the first started sprint, else
\* the first sprint of the list, and neither a sprint nor a summary when the
\* list is empty; the detail and the summary are asked for that sprint.
C8_DashboardSelection ==
    DashboardListed =>
        LET e == ExpectedSprint(api.sprints, req.body.sprintId)
        IN /\ view.sprints = api.sprints
           /\ IF e = 0
              THEN /\ api.sprints = <<>>
                   /\ view.selectedSprint = NoSprint
                   /\ view.summary = NoSummary
                   /\ Len(calls) = 1
              ELSE /\ view.selectedSprint.id = api.sprints[e].id
                   /\ view.selectedSprint.status = api.sprints[e].status
                   /\ view.summary \in {NoSummary, [sprintId |-> api.sprints[e].id]}
                   /\ Len(calls) = 3
                   /\ calls[2].id = api.sprints[e].id
                   /\ calls[3].id = api.sprints[e].id

\* no sprintId given: the started sprint, third in the list, is the one shown
C8_Witness ==
    /\ DashboardListed
    /\ req.body.sprintId = NoVal
    /\ Len(api.sprints) = 3
    /\ api.sprints[1].status = "Closed"
    /\ api.sprints[3].status = "Started"
    /\ view.selectedSprint.id = api.sprints[3].id

\* the list the upstream API returned and the list the page was given
RenderedTaskList ==
    IF req.route = "GET /tasks"
    THEN [listed |-> Map(ListItem, api.tasks), items |-> view.items]
    ELSE [listed |-> Map(ListItem, TasksOfSprint(api.tasks, req.id)),
          items |-> view.tasksInSprint]

TaskListRendered ==
    /\ req.route \in {"GET /tasks", "GET /sprints/:id"}
    /\ handled
    /\ resp.kind = "render"
    /\ flashed = <<>>

LacksComputed(t) == t.totalHours = NoVal \/ t.totalDays = NoVal \/ t.dueDate = NoVal

\* the task of the upstream API with the given id
Stored(id) == api.tasks[CHOOSE i \in DOMAIN api.tasks : api.tasks[i].id = id]

\* C9: the rendered task list has the length and the order of ids of the
\* upstream list; an item that lacked totalHours, totalDays or dueDate
\* carries the dueDate of the detail record fetched for its id, or is the
\* upstream item itself when that fetch failed; every other item is the
\* upstream item.
C9_Enrichment ==
    TaskListRendered =>
        LET listed == RenderedTaskList.listed
            items == RenderedTaskList.items
        IN /\ Len(items) = Len(listed)
           /\ \A i \in DOMAIN listed :
                /\ items[i].id = listed[i].id
                /\ IF LacksComputed(listed[i]) /\ Stored(listed[i].id).fetchOk
                   THEN items[i].dueDate = DetailItem(Stored(listed[i].id)).dueDate
                   ELSE items[i] = listed[i]

\* a list of two items without due date: the first enriched, the second,
\* whose fetch failed, as it was listed
C9_Witness ==
    /\ TaskListRendered
    /\ req.route = "GET /tasks"
    /\ Len(view.items) = 2
    /\ api.tasks[1].omit = "dueDate" /\ api.tasks[1].fetchOk
    /\ view.items[1].dueDate = DueDateOf(api.tasks[1].id)
    /\ api.tasks[2].omit = "dueDate" /\ ~api.tasks[2].fetchOk
    /\ view.items[2].dueDate = NoVal

\* some task of the sprint is not finished
Unfinished(sprintId) ==
    \E i \in DOMAIN api.tasks :
        api.tasks[i].sprintId = sprintId /\ api.tasks[i].status # "Concluida"

\* C10: the sprint list marks as pending exactly the sprints that have a
\* task with a status other than 'Concluida' among the fetched tasks, and
\* the sprint page has hasPending exactly when some task of the sprint has
\* such a status.
C10_Pending ==
    /\ (req.route = "GET /sprints" /\ handled /\ flashed = <<>>) =>
            view.pendingBySprint = {s \in {"s1", "s2"} : Unfinished(s)}
    /\ (req.route = "GET /sprints/:id" /\ handled /\ resp.kind = "render") =>
            (view.hasPending <=> Unfinished(req.id))

\* one sprint with an unfinished task, the other with a finished task only
C10_Witness ==
    /\ req.route = "GET /sprints" /\ handled /\ flashed = <<>>
    /\ Len(api.tasks) = 2
    /\ api.tasks[1].sprintId = "s2" /\ api.tasks[1].status = "Concluida"
    /\ api.tasks[2].sprintId = "s1" /\ api.tasks[2].status = "Em andamento"
    /\ view.pendingBySprint = {"s1"}

\* the page handlers that answer a rejected upstream call by rendering
RecoveringRoutes == {"GET /dashboard", "GET /tasks", "GET /sprints", "GET /users"}

\* the primary upstream call of such a handler was rejected
PrimaryRejected ==
    /\ req.route \in RecoveringRoutes
    /\ handled
    /\ calls # <<>>
    /\ calls[1].result # "ok"

\* C11: when the primary upstream call of GET /dashboard, GET /tasks,
\* GET /sprints or GET /users is rejected, the answer is the page rendered
\* with its empty view, and that page shows the danger flash the handler
\* queued for the failure.
C11_FlashWithDegradedView ==
    PrimaryRejected =>
        /\ resp.kind = "render"
        /\ flashed # <<>>
        /\ \A i \in DOMAIN flashed : flashed[i] \in Range(locals.flash)

\* the sprint list was fetched and a sprint selected
SprintSelected ==
    /\ DashboardListed
    /\ api.sprints # <<>>

\* C12: with the sprint list fetched and a sprint selected, the dashboard is
\* rendered with the full sprint list and without a danger flash whatever the
\* two sub-fetches do; selectedSprint is the re-fetched sprint, or the copy
\* from the list when the re-fetch is rejected; summary is the fetched
\* summary, or null when its fetch is rejected; neither depends on the other.
C12_SubFetchesIndependent ==
    SprintSelected =>
        LET listed == api.sprints[ExpectedSprint(api.sprints, req.body.sprintId)]
        IN /\ resp = Render("dashboard")
           /\ flashed = <<>>
           /\ session.flash = <<>>
           /\ view.sprints = api.sprints
           /\ Len(calls) = 3
           /\ view.selectedSprint =
                IF calls[2].result = "ok"
                THEN Sprint(listed.id, listed.status, "detail") ELSE listed
           /\ view.summary =
                IF calls[3].result = "ok" THEN [sprintId |-> listed.id] ELSE NoSummary

\* the re-fetch of the sprint rejected, the summary fetched
C12_Witness ==
    /\ SprintSelected
    /\ calls[2].result # "ok"
    /\ calls[3].result = "ok"
    /\ view.selectedSprint.src = "list"
    /\ view.summary # NoSummary

\* the re-fetch resolved, the summary rejected
C12_WitnessSummaryRejected ==
    /\ SprintSelected
    /\ calls[2].result = "ok"
    /\ calls[3].result # "ok"
    /\ view.selectedSprint.src = "detail"
    /\ view.summary = NoSummary

IsStatusPatch(c) == c.method = "PATCH" /\ c.path = "/tasks/:id/status"

\* C13: a PATCH /tasks/{id}/status for 'Bloqueada' is sent only with both
\* motivo and responsavelId supplied, which it carries in its block; a
\* request for 'Bloqueada' that lacks either field sends no such PATCH.
C13_BlockNeedsBothFields ==
    (req.route = "POST /tasks/:id/status" /\ handled /\ req.body.status = "Bloqueada") =>
        \A i \in DOMAIN calls :
            IsStatusPatch(calls[i]) =>
                /\ Truthy(req.body.motivo) /\ Truthy(req.body.responsavelId)
                /\ calls[i].body.hasBlock
                /\ calls[i].body.block =
                     [motivo |-> req.body.motivo, responsavelId |-> req.body.responsavelId]

IsAvailableCall(c) == c.method = "GET" /\ c.path = "/users/available"

IsUsersCall(c) == c.method = "GET" /\ c.path = "/users"

\* the task listing got as far as asking for the available assignees
AssigneesAsked ==
    /\ req.route = "GET /tasks"
    /\ handled
    /\ calls # <<>>
    /\ \E i \in DOMAIN calls : IsAvailableCall(calls[i])

\* C14: on GET /tasks, a rejected GET /users/available never fails the page;
\* rejected with 404 for an Admin session, the handler asks GET /users and
\* lists those users in reduced shape; rejected otherwise, the assignee list
\* is empty.
C14_ListingFallback ==
    AssigneesAsked =>
        LET avail == calls[CHOOSE i \in DOMAIN calls : IsAvailableCall(calls[i])]
        IN /\ resp = Render("tasks/list")
           /\ flashed = <<>>
           /\ avail.result # "ok" =>
                IF avail.result = "404" /\ RoleOf(session.user) = "Admin"
                THEN /\ \E i \in DOMAIN calls : IsUsersCall(calls[i])
                     /\ view.users \in {<<>>, Map(Reduced, api.users)}
                     /\ (\A i \in DOMAIN calls : IsUsersCall(calls[i]) => calls[i].result = "ok")
                            => view.users = Map(Reduced, api.users)
                ELSE view.users = <<>>

\* the request just answered is a POST /login whose upstream call resolved
LoginResolved(route, upstream) ==
    /\ route = "POST /login"
    /\ upstream # <<>>
    /\ upstream[1].result = "ok"

\* C15: POST /logout leaves the session without token, user, tz and queued
\* flash messages; the token changes only by POST /logout and by a
\* POST /login whose upstream call resolved (not by signup, tz capture, a
\* failed login or a failed upstream call); and a session without a token
\* that asks for a guarded route is redirected to /login with no upstream
\* call and stays without a token.  Hence, from a logout up to the next
\* resolved login, every request to a guarded route is turned away.
C15_LogoutUntilLogin ==
    [][/\ req'.route = "POST /logout" =>
            /\ session'.token = NoVal /\ session'.user = NoVal
            /\ session'.tz = NoVal /\ session'.flash = <<>>
            /\ resp' = Redirect("/login", NoVal)
       /\ session'.token # session.token =>
            req'.route = "POST /logout" \/ LoginResolved(req'.route, calls')
       /\ (~Truthy(session.token) /\ req'.route \in AuthRoutes) =>
            /\ resp' = Redirect("/login", NoVal)
            /\ calls' = <<>>
            /\ ~Truthy(session'.token)]_vars

\* the logout of a session that was logged in and had a timezone
C15_Witness ==
    /\ req.route = "POST /logout"
    /\ locals.currentUser # NoVal
    /\ locals.tz # NoVal
    /\ session.token = NoVal /\ session.user = NoVal
    /\ session.tz = NoVal /\ session.flash = <<>>

====
